---- MODULE Spec2Model ----
(***************************************************************************)
(* good-composer: the per-connection control loop (websocket_compose), the *)
(* streaming execution it spawns (handle_compose) and the thinking-tag     *)
(* splitter of the LLM client (LLMClient.stream_completion).               *)
(*                                                                         *)
(* The control loop and the execution are asyncio coroutines: each action  *)
(* below is the code one coroutine runs between two awaits.                *)
(***************************************************************************)
EXTENDS Integers, Sequences, FiniteSets, TLC

VARIABLES
    ctl,            \* position of websocket_compose
    pending,        \* the compose request the control loop holds while it joins
    current_task,   \* id of the asyncio task in current_task, 0 for None
    cancel_event,   \* the connection's asyncio.Event
    session,        \* the session dict
    tasks,          \* every handle_compose task ever created, by id
    sink,           \* the message the step just taken delivered to the peer, if any
    msg_type,       \* the type of the message the step just taken received, if any
    next_id,        \* the id the next created task gets
    exit_reason,    \* history: why the control loop left its while loop
    reset_seen,     \* history: a clear_session was handled and no compose accepted since
    p_rest,         \* splitter run: upstream text not yet delivered
    p_mode,         \* splitter run: how the upstream text is cut into chunks
    p_nfrag,        \* splitter run: chunks delivered so far
    p_cuts,         \* history: the lengths of the chunks delivered so far
    buffer,         \* splitter: buffer
    in_thinking,    \* splitter: in_thinking
    events,         \* splitter: the (chunk_type, content) pairs yielded so far
    p_text,         \* history: the whole upstream text of the splitter run
    p_done          \* splitter run: the flush after the stream has run

server_vars == <<ctl, pending, current_task, cancel_event, session, tasks, sink,
                 msg_type, next_id, exit_reason, reset_seen>>
parser_vars == <<p_rest, p_mode, p_nfrag, p_cuts, buffer, in_thinking, events, p_text,
                 p_done>>
vars == <<ctl, pending, current_task, cancel_event, session, tasks, sink,
          msg_type, next_id, exit_reason, reset_seen,
          p_rest, p_mode, p_nfrag, p_cuts, buffer, in_thinking, events, p_text, p_done>>

----------------------------------------------------------------------------
(* Bounds of the model *)

MaxExec == 2        \* tasks one connection creates
MaxChunks == 1      \* chunks one execution's stream yields
MaxPieces == 3      \* pieces the upstream text of a splitter run is made of
MaxFrags == 2       \* chunks an arbitrarily cut upstream text arrives in

----------------------------------------------------------------------------
(* Program constants *)

MAX_PROMPT_LEN == 512
START_CHUNK_DEADLINE == 60      \* defined by the server, read nowhere
IDLE_CHUNK_GAP == 60            \* defined by the server, read nowhere
REQUEST_HARD_LIMIT == 300       \* defined by the server, read nowhere
DEFAULT_TEMPO == 120

None == "None"
INSTRUMENT_BANKS == {"electronic", "acoustic", "orchestral", "retro"}
DEFAULT_BANK == "electronic"
InstrumentIds == 0..7           \* every bank's instruments dict has keys 0..7

----------------------------------------------------------------------------
(* Prompts.  A prompt is a sequence of runs [cls, n]: n characters of one  *)
(* class.  "ws" is whitespace that is no control character (a space),      *)
(* "wsctl" whitespace that is one (a newline), "ctl" a control character   *)
(* that is no whitespace, "c" any other character.                         *)

Run(cls, n) == [cls |-> cls, n |-> n]

RECURSIVE LStrip(_)
LStrip(p) ==
    IF p # <<>> /\ Head(p).cls \in {"ws", "wsctl"} THEN LStrip(Tail(p)) ELSE p

RECURSIVE RStrip(_)
RStrip(p) ==
    IF p # <<>> /\ p[Len(p)].cls \in {"ws", "wsctl"}
    THEN RStrip(SubSeq(p, 1, Len(p) - 1)) ELSE p

IsPrintable(r) == r.cls \notin {"ctl", "wsctl"}

\* prompt.strip(), then re.sub(r"[\x00-\x1f\x7f-\x9f]", "", prompt)
sanitize_prompt(p) == SelectSeq(RStrip(LStrip(p)), IsPrintable)

RECURSIVE PromptLen(_)
PromptLen(p) == IF p = <<>> THEN 0 ELSE Head(p).n + PromptLen(Tail(p))

\* the prompts a client sends
Prompts == {
    <<>>,
    <<Run("ws", 1)>>,
    <<Run("ctl", 1)>>,
    <<Run("ws", 1), Run("c", MAX_PROMPT_LEN), Run("wsctl", 1)>>,
    <<Run("c", MAX_PROMPT_LEN), Run("ctl", 1), Run("c", 1)>> }

\* the bankId a compose message carries
BankIds == {None, "auto", "acoustic", "bogus"}

----------------------------------------------------------------------------
(* Generated content.  A content chunk carries one line of output; a line  *)
(* is what json.loads makes of it.                                         *)

Line(json, bank, tnvd, has_i, i, i_hashable, key) ==
    [json |-> json, bank |-> bank, tnvd |-> tnvd, has_i |-> has_i, i |-> i,
     i_hashable |-> i_hashable, key |-> key]

GarbageLine == Line(FALSE, "absent", FALSE, FALSE, 0, TRUE, 0)
NoteLine == Line(TRUE, "absent", TRUE, TRUE, 3, TRUE, 1)
BankLine == Line(TRUE, "retro", FALSE, FALSE, 0, TRUE, 0)
UnhashableNoteLine == Line(TRUE, "absent", TRUE, TRUE, 0, FALSE, 2)

\* the lines a stream yields as content
ChunkLines == {GarbageLine, NoteLine, BankLine, UnhashableNoteLine}

ParseLine(ln, st) ==
    IF ~ln.json THEN st
    ELSE IF ln.bank # "absent" /\ st.detected_bank = None
    THEN IF ln.bank \in INSTRUMENT_BANKS
         THEN [st EXCEPT !.detected_bank = ln.bank, !.bank = ln.bank]
         ELSE st
    ELSE IF ln.tnvd
    THEN IF ln.has_i /\ ~ln.i_hashable
         THEN [st EXCEPT !.raised = TRUE]
         ELSE [st EXCEPT !.new_notes = Append(@,
                  [key |-> ln.key,
                   i |-> IF ln.has_i /\ ln.i \in InstrumentIds THEN ln.i ELSE 0])]
    ELSE st

RECURSIVE ParseLines(_, _)
ParseLines(lines, st) ==
    IF lines = <<>> \/ st.raised THEN st
    ELSE ParseLines(Tail(lines), ParseLine(Head(lines), st))

\* the for loop over accumulated_content.split("\n")
ParseContent(acc, bank) ==
    ParseLines(acc, [new_notes |-> <<>>, detected_bank |-> None, bank |-> bank,
                     raised |-> FALSE])

----------------------------------------------------------------------------
(* Tasks *)

TaskIds == 1..MaxExec

NoTask == [pc |-> "none", prompt |-> <<>>, refine |-> FALSE, bank_id |-> None,
           acc |-> <<>>, nchunks |-> 0, msg |-> "none", must_cancel |-> FALSE,
           terms |-> <<>>, started |-> FALSE, mode |-> "none", wrote |-> FALSE,
           cancel_in_pull |-> FALSE, after_reset |-> FALSE, joined_by |-> "none",
           failure |-> "none", midi_before |-> <<>>]

\* asyncio.Task.done()
TaskDone(id) == tasks[id].pc \in {"done", "raised", "killed"}

Running(id) == tasks[id].pc \notin {"none", "done", "raised", "killed"}

\* current_task and not current_task.done()
HasActive == current_task # 0 /\ ~TaskDone(current_task)

Msg(type, id, message) == [type |-> type, id |-> id, message |-> message]

\* the step writes nothing to the websocket
NoMsg == Msg("none", 0, "none")

\* the coroutine has returned or raised: its frame is gone
Finished(t, pc) == [NoTask EXCEPT !.pc = pc, !.terms = t.terms, !.started = t.started,
                                  !.joined_by = t.joined_by]

\* cancel_event.set(): remember which executions it finds waiting for the stream
SetCancel(ts) ==
    [id \in TaskIds |->
        IF ts[id].pc = "pull" THEN [ts[id] EXCEPT !.cancel_in_pull = TRUE] ELSE ts[id]]

----------------------------------------------------------------------------
(* websocket_compose: the control loop *)

NoReq == [prompt |-> <<>>, refine |-> FALSE, bank_id |-> None]

ClearedSession == [original_prompt |-> <<>>, last_midi |-> <<>>,
                   tempo |-> DEFAULT_TEMPO, bank |-> None]

\* current_task = asyncio.create_task(handle_compose(...)): the coroutine has not
\* run yet; a finished task older than the one current_task held is referenced by
\* nothing any more
SpawnTask(ts, req) ==
    [id \in TaskIds |->
        IF id = next_id
        THEN [NoTask EXCEPT !.pc = "new", !.prompt = req.prompt, !.refine = req.refine,
                            !.bank_id = req.bank_id, !.after_reset = reset_seen,
                            !.midi_before = session.last_midi]
        ELSE IF id < current_task /\ ts[id].pc \in {"done", "raised", "killed"}
        THEN [NoTask EXCEPT !.pc = "done"]
        ELSE ts[id]]

\* cancel_event.set() before "await current_task" in the cancel and compose branches
SignalJoin(ts, why) ==
    [SetCancel(ts) EXCEPT ![current_task].joined_by = why]

\* mutant: the cancel branch joins any task it has, finished or not
CancelJoinsAnyTask == current_task # 0

\* "if current_task and not current_task.done()" of the cancel branch
CancelMustJoin == HasActive

\* mutant: the compose branch starts the new task without looking at the old one
ComposeNeverJoins == FALSE

\* "if current_task and not current_task.done()" of the compose branch
ComposeMustJoin == HasActive

\* mutant: the finally block returns without cancelling and awaiting the task
FinallyNeverJoins == FALSE

\* "if current_task and not current_task.done()" of the finally block
FinallyMustJoin == HasActive

\* the finally block: cancel_event.set(), current_task.cancel(), await current_task
EnterFinally(reason) ==
    /\ exit_reason' = reason
    /\ IF FinallyMustJoin
       THEN /\ cancel_event' = TRUE
            /\ tasks' = [SetCancel(tasks) EXCEPT ![current_task].must_cancel = TRUE]
            /\ ctl' = "teardown"
       ELSE /\ ctl' = "closed"
            /\ UNCHANGED <<cancel_event, tasks>>

\* "data = await websocket.receive_json()" returns; msg_type = data.get("type")
Received(type) == ctl = "recv" /\ msg_type' = type

\* mutant: a ping raises the cancel flag on its way to the pong
RecvPingSetsCancel ==
    /\ Received("ping")
    /\ ctl' = "send_pong"
    /\ cancel_event' = TRUE
    /\ sink' = NoMsg
    /\ UNCHANGED <<pending, current_task, session, tasks, next_id,
                   exit_reason, reset_seen, parser_vars>>

RecvPing ==
    /\ Received("ping")
    /\ ctl' = "send_pong"
    /\ sink' = NoMsg
    /\ UNCHANGED <<pending, current_task, cancel_event, session, tasks, next_id,
                   exit_reason, reset_seen, parser_vars>>

RecvCancel ==
    /\ Received("cancel")
    /\ IF CancelMustJoin
       THEN /\ cancel_event' = TRUE
            /\ tasks' = SignalJoin(tasks, "cancel")
            /\ ctl' = "join_cancel"
       ELSE UNCHANGED <<cancel_event, tasks, ctl>>
    /\ sink' = NoMsg
    /\ UNCHANGED <<pending, current_task, session, next_id, exit_reason, reset_seen,
                   parser_vars>>

RecvClearSession ==
    /\ Received("clear_session")
    /\ session' = ClearedSession
    /\ reset_seen' = TRUE
    /\ ctl' = "send_cleared"
    /\ sink' = NoMsg
    /\ UNCHANGED <<pending, current_task, cancel_event, tasks, next_id, exit_reason,
                   parser_vars>>

\* mutant: the compose branch checks neither emptiness nor length
PromptAlwaysOk(p) == TRUE

\* "if not prompt" and "if len(prompt) > MAX_PROMPT_LEN", both false
PromptOk(p) == p # <<>> /\ PromptLen(p) <= MAX_PROMPT_LEN

RecvCompose ==
    \E raw \in Prompts, refine \in BOOLEAN, bank_id \in BankIds :
        LET prompt == sanitize_prompt(raw)
            req == [prompt |-> prompt, refine |-> refine, bank_id |-> bank_id]
        IN /\ Received("compose")
           /\ PromptOk(prompt) => next_id <= MaxExec
           /\ IF ~PromptOk(prompt)
              THEN /\ ctl' = IF prompt = <<>> THEN "send_error_empty"
                                              ELSE "send_error_too_long"
                   /\ UNCHANGED <<pending, current_task, cancel_event, tasks, next_id,
                                  reset_seen>>
              ELSE IF ComposeMustJoin
              THEN /\ cancel_event' = TRUE
                   /\ tasks' = SignalJoin(tasks, "compose")
                   /\ pending' = req
                   /\ ctl' = "join_compose"
                   /\ UNCHANGED <<current_task, next_id, reset_seen>>
              ELSE /\ tasks' = SpawnTask(tasks, req)
                   /\ current_task' = next_id
                   /\ next_id' = next_id + 1
                   /\ reset_seen' = FALSE
                   /\ UNCHANGED <<pending, cancel_event, ctl>>
           /\ sink' = NoMsg
           /\ UNCHANGED <<session, exit_reason, parser_vars>>

\* a message of any other type matches no branch
RecvOther ==
    /\ Received("other")
    /\ sink' = NoMsg
    /\ UNCHANGED <<ctl, pending, current_task, cancel_event, session, tasks, next_id,
                   exit_reason, reset_seen, parser_vars>>

\* receive_json raises: WebSocketDisconnect or any other exception
RecvFail ==
    /\ ctl = "recv"
    /\ EnterFinally("receive")
    /\ sink' = NoMsg
    /\ msg_type' = None
    /\ UNCHANGED <<pending, current_task, session, next_id, reset_seen, parser_vars>>

CtlMsg ==
    CASE ctl = "send_pong" -> Msg("pong", 0, "none")
      [] ctl = "send_cleared" -> Msg("session_cleared", 0, "none")
      [] ctl = "send_error_empty" -> Msg("error", 0, "empty")
      [] ctl = "send_error_too_long" -> Msg("error", 0, "too_long")

\* "await websocket.send_json(...)" of the control loop returns or raises
CtlSend ==
    /\ ctl \in {"send_pong", "send_cleared", "send_error_empty", "send_error_too_long"}
    /\ \E ok \in BOOLEAN :
        IF ok
        THEN /\ sink' = CtlMsg
             /\ ctl' = "recv"
             /\ UNCHANGED <<cancel_event, tasks, exit_reason>>
        ELSE /\ EnterFinally("send")
             /\ sink' = NoMsg
    /\ msg_type' = None
    /\ UNCHANGED <<pending, current_task, session, next_id, reset_seen, parser_vars>>

\* mutant: the branches go on after the join without cancel_event.clear()
JoinDoneKeepsFlag ==
    /\ ctl \in {"join_cancel", "join_compose"}
    /\ TaskDone(current_task)
    /\ IF tasks[current_task].pc = "raised"
       THEN /\ EnterFinally("task_exception")
            /\ UNCHANGED <<pending, current_task, next_id, reset_seen>>
       ELSE /\ UNCHANGED cancel_event
            /\ ctl' = "recv"
            /\ pending' = NoReq
            /\ IF ctl = "join_compose"
               THEN /\ tasks' = SpawnTask(tasks, pending)
                    /\ current_task' = next_id
                    /\ next_id' = next_id + 1
                    /\ reset_seen' = FALSE
               ELSE UNCHANGED <<tasks, current_task, next_id, reset_seen>>
            /\ UNCHANGED exit_reason
    /\ sink' = NoMsg
    /\ msg_type' = None
    /\ UNCHANGED <<session, parser_vars>>

\* "await current_task" of the cancel and compose branches returns or raises
JoinDone ==
    /\ ctl \in {"join_cancel", "join_compose"}
    /\ TaskDone(current_task)
    /\ IF tasks[current_task].pc = "raised"
       THEN /\ EnterFinally("task_exception")
            /\ UNCHANGED <<pending, current_task, next_id, reset_seen>>
       ELSE /\ cancel_event' = FALSE
            /\ ctl' = "recv"
            /\ pending' = NoReq
            /\ IF ctl = "join_compose"
               THEN /\ tasks' = SpawnTask(tasks, pending)
                    /\ current_task' = next_id
                    /\ next_id' = next_id + 1
                    /\ reset_seen' = FALSE
               ELSE UNCHANGED <<tasks, current_task, next_id, reset_seen>>
            /\ UNCHANGED exit_reason
    /\ sink' = NoMsg
    /\ msg_type' = None
    /\ UNCHANGED <<session, parser_vars>>

\* "await current_task" of the finally block raises CancelledError, which is caught
TeardownDone ==
    /\ ctl = "teardown"
    /\ TaskDone(current_task)
    /\ ctl' = "closed"
    /\ sink' = NoMsg
    /\ msg_type' = None
    /\ UNCHANGED <<pending, current_task, cancel_event, session, tasks, next_id,
                   exit_reason, reset_seen, parser_vars>>

----------------------------------------------------------------------------
(* handle_compose: one execution *)

EffectiveBank(bank_id) ==
    IF bank_id # None /\ bank_id # "auto" /\ bank_id \in INSTRUMENT_BANKS
    THEN bank_id ELSE None

\* "if refine and session and session.get('last_midi')"
RefineMode(s, refine) == refine /\ s.last_midi # <<>>

\* bank selection and message building, up to the first await
Prelude(s, prompt, refine, bank_id) ==
    LET keep == refine /\ s.bank # None
        effective_bank == IF keep THEN s.bank ELSE EffectiveBank(bank_id)
        s1 == IF ~keep /\ effective_bank # None
              THEN [s EXCEPT !.bank = effective_bank] ELSE s
    IN IF RefineMode(s1, refine) THEN s1
       ELSE [s1 EXCEPT !.original_prompt = prompt,
                       !.last_midi = <<>>,
                       !.bank = IF effective_bank # None THEN effective_bank ELSE @]

\* the task is scheduled for the first time and runs to "await send_json(start)"
TaskStart(id) ==
    /\ tasks[id].pc = "new"
    /\ ~tasks[id].must_cancel
    /\ session' = Prelude(session, tasks[id].prompt, tasks[id].refine, tasks[id].bank_id)
    /\ tasks' = [tasks EXCEPT ![id].pc = "start_send",
                              ![id].prompt = <<>>,
                              ![id].bank_id = None,
                              ![id].mode = IF RefineMode(session, tasks[id].refine)
                                           THEN "refine" ELSE "fresh"]
    /\ sink' = NoMsg
    /\ msg_type' = None
    /\ UNCHANGED <<ctl, pending, current_task, cancel_event, next_id, exit_reason,
                   reset_seen, parser_vars>>

\* send_json(start) returns, or raises out of handle_compose: it is outside the try
TaskStartSent(id) ==
    /\ tasks[id].pc = "start_send"
    /\ ~tasks[id].must_cancel
    /\ \E ok \in BOOLEAN :
        IF ok
        THEN /\ sink' = Msg("start", id, "none")
             /\ tasks' = [tasks EXCEPT ![id].pc = "pull", ![id].started = TRUE]
        ELSE /\ tasks' = [tasks EXCEPT ![id] = Finished(@, "raised")]
             /\ sink' = NoMsg
    /\ msg_type' = None
    /\ UNCHANGED <<ctl, pending, current_task, cancel_event, session, next_id,
                   exit_reason, reset_seen, parser_vars>>

\* the stream yields (chunk_type, chunk_data): the body of the async for, to its await
SourceChunk(id) ==
    /\ tasks[id].pc = "pull"
    /\ ~tasks[id].must_cancel
    /\ tasks[id].nchunks < MaxChunks \/ cancel_event
    /\ \E chunk_type \in {"thinking", "content"}, chunk_data \in ChunkLines :
        tasks' = [tasks EXCEPT ![id] =
            IF cancel_event
            THEN [@ EXCEPT !.pc = "term_send", !.msg = "cancelled"]
            ELSE [@ EXCEPT !.pc = "chunk_send",
                           !.nchunks = @ + 1,
                           !.msg = IF chunk_type = "thinking" THEN "thinking" ELSE "chunk",
                           !.acc = IF chunk_type = "content"
                                   THEN Append(@, chunk_data) ELSE @]]
    /\ sink' = NoMsg
    /\ msg_type' = None
    /\ UNCHANGED <<ctl, pending, current_task, cancel_event, session, next_id,
                   exit_reason, reset_seen, parser_vars>>

\* send_json(chunk) returns, or raises and the execution returns
ChunkSent(id) ==
    /\ tasks[id].pc = "chunk_send"
    /\ ~tasks[id].must_cancel
    /\ \E ok \in BOOLEAN :
        IF ok
        THEN /\ sink' = Msg(tasks[id].msg, id, "none")
             /\ tasks' = [tasks EXCEPT ![id].pc = "pull", ![id].msg = "none"]
        ELSE /\ tasks' = [tasks EXCEPT ![id] = Finished(@, "done")]
             /\ sink' = NoMsg
    /\ msg_type' = None
    /\ UNCHANGED <<ctl, pending, current_task, cancel_event, session, next_id,
                   exit_reason, reset_seen, parser_vars>>

\* the stream ends: parse accumulated_content into the session, then send done;
\* an exception of the parse is caught by "except Exception"
SourceEnd(id) ==
    /\ tasks[id].pc = "pull"
    /\ ~tasks[id].must_cancel
    /\ LET t == tasks[id]
           r == ParseContent(t.acc, session.bank)
       IN IF t.acc = <<>>
          THEN /\ tasks' = [tasks EXCEPT ![id].pc = "term_send", ![id].msg = "done"]
               /\ UNCHANGED session
          ELSE IF r.raised
          THEN /\ session' = [session EXCEPT !.bank = r.bank]
               /\ tasks' = [tasks EXCEPT ![id].pc = "term_send",
                                         ![id].msg = "error_generic"]
          ELSE /\ session' = [session EXCEPT
                                !.bank = r.bank,
                                !.last_midi = IF t.refine THEN @ \o r.new_notes
                                                          ELSE r.new_notes]
               /\ tasks' = [tasks EXCEPT ![id].pc = "term_send", ![id].msg = "done",
                                         ![id].wrote = TRUE]
    /\ sink' = NoMsg
    /\ msg_type' = None
    /\ UNCHANGED <<ctl, pending, current_task, cancel_event, next_id, exit_reason,
                   reset_seen, parser_vars>>

\* what stream_completion raises for a failure of the upstream
stream_error(failure) ==
    IF failure = "ServiceUnavailableError" THEN "ConnectionError" ELSE "ConnectionError"

\* the except clauses of handle_compose
ExceptMsg(exc) == IF exc = "ConnectionError" THEN "error_connect" ELSE "error_generic"

\* the stream raises
SourceFail(id) ==
    /\ tasks[id].pc = "pull"
    /\ ~tasks[id].must_cancel
    /\ \E failure \in {"ServiceUnavailableError", "Exception"} :
        tasks' = [tasks EXCEPT ![id].pc = "term_send",
                               ![id].failure = failure,
                               ![id].msg = ExceptMsg(stream_error(failure))]
    /\ sink' = NoMsg
    /\ msg_type' = None
    /\ UNCHANGED <<ctl, pending, current_task, cancel_event, session, next_id,
                   exit_reason, reset_seen, parser_vars>>

\* the upstream goes silent: no chunk, no end, no error; no timeout is armed
SourceStall(id) ==
    /\ tasks[id].pc = "pull"
    /\ ~tasks[id].must_cancel
    /\ tasks' = [tasks EXCEPT ![id].pc = "stalled"]
    /\ sink' = NoMsg
    /\ msg_type' = None
    /\ UNCHANGED <<ctl, pending, current_task, cancel_event, session, next_id,
                   exit_reason, reset_seen, parser_vars>>

TermType(msg) == IF msg \in {"error_connect", "error_generic"} THEN "error" ELSE msg

TermMessage(msg) ==
    IF msg = "error_connect" THEN "connect"
    ELSE IF msg = "error_generic" THEN "generic" ELSE "none"

\* safe_send of the terminal message: a failed write is swallowed
TermSent(id) ==
    /\ tasks[id].pc = "term_send"
    /\ ~tasks[id].must_cancel
    /\ \E ok \in BOOLEAN :
        sink' = IF ok
                THEN (Msg(TermType(tasks[id].msg), id, TermMessage(tasks[id].msg)))
                ELSE NoMsg
    /\ tasks' = [tasks EXCEPT ![id] =
                    Finished([@ EXCEPT !.terms = Append(@, TermType(tasks[id].msg))], "done")]
    /\ msg_type' = None
    /\ UNCHANGED <<ctl, pending, current_task, cancel_event, session, next_id,
                   exit_reason, reset_seen, parser_vars>>

\* current_task.cancel(): CancelledError is thrown at the await the task is at;
\* no except clause of handle_compose or stream_completion catches it
TaskKilled(id) ==
    /\ Running(id)
    /\ tasks[id].must_cancel
    /\ tasks' = [tasks EXCEPT ![id] = Finished(@, "killed")]
    /\ sink' = NoMsg
    /\ msg_type' = None
    /\ UNCHANGED <<ctl, pending, current_task, cancel_event, session, next_id,
                   exit_reason, reset_seen, parser_vars>>

----------------------------------------------------------------------------
(* LLMClient.stream_completion: the thinking-tag splitter.  Text is a      *)
(* sequence of characters.                                                 *)

OPEN == <<"<", "t", "h", "i", "n", "k", ">">>
CLOSE == <<"<", "/", "t", "h", "i", "n", "k", ">">>

Take(str, n) == SubSeq(str, 1, n)
Drop(str, n) == SubSeq(str, n + 1, Len(str))

\* str.find(pat): the least offset, counted from 0, or -1
Find(str, pat) ==
    LET hits == {k \in 0..(Len(str) - Len(pat)) : SubSeq(str, k + 1, k + Len(pat)) = pat}
    IN IF hits = {} THEN -1 ELSE CHOOSE k \in hits : \A j \in hits : k <= j

\* str.endswith(suf)
EndsWith(str, suf) ==
    Len(suf) <= Len(str) /\ SubSeq(str, Len(str) - Len(suf) + 1, Len(str)) = suf

\* mutant: the splitter never waits for the rest of an opening tag
NeverPartialOpen(str) == FALSE

\* buffer.endswith("<") or any(buffer.endswith("<think>"[:i]) for i in range(1, 7))
PartialOpen(str) ==
    EndsWith(str, <<"<">>) \/ \E k \in 1..6 : EndsWith(str, Take(OPEN, k))

\* mutant: every yield is typed content
EvUntyped(chunk_type, content) == <<"content", content>>

\* the tuple of a yield
Ev(chunk_type, content) == <<chunk_type, content>>

\* "while buffer:" over a splitter state [buffer, in_thinking, out]
RECURSIVE Scan(_)
Scan(st) ==
    IF st.buffer = <<>> THEN st
    ELSE IF st.in_thinking
    THEN LET end_idx == Find(st.buffer, CLOSE)
         IN IF end_idx # -1
            THEN Scan([buffer |-> Drop(st.buffer, end_idx + 8),
                       in_thinking |-> FALSE,
                       out |-> IF end_idx > 0
                               THEN Append(st.out, Ev("thinking", Take(st.buffer, end_idx)))
                               ELSE st.out])
            ELSE [buffer |-> <<>>,
                  in_thinking |-> TRUE,
                  out |-> Append(st.out, Ev("thinking", st.buffer))]
    ELSE LET start_idx == Find(st.buffer, OPEN)
         IN IF start_idx # -1
            THEN Scan([buffer |-> Drop(st.buffer, start_idx + 7),
                       in_thinking |-> TRUE,
                       out |-> IF start_idx > 0
                               THEN Append(st.out, Ev("content", Take(st.buffer, start_idx)))
                               ELSE st.out])
            ELSE IF PartialOpen(st.buffer)
            THEN st
            ELSE [buffer |-> <<>>,
                  in_thinking |-> FALSE,
                  out |-> Append(st.out, Ev("content", st.buffer))]

\* one upstream chunk: "if content: buffer += content", then the while loop
Feed(st, content) ==
    IF content = <<>> THEN st ELSE Scan([st EXCEPT !.buffer = @ \o content])

\* mutant: the flush yields the buffer without looking whether it is empty
FlushAlways(st) ==
    [st EXCEPT !.out = Append(@, Ev(IF st.in_thinking THEN "thinking" ELSE "content",
                                    st.buffer))]

\* "Flush remaining buffer" after the stream
Flush(st) ==
    IF st.buffer # <<>>
    THEN [st EXCEPT !.out = Append(@, Ev(IF st.in_thinking THEN "thinking" ELSE "content",
                                         st.buffer))]
    ELSE st

SplitterStart == [buffer |-> <<>>, in_thinking |-> FALSE, out |-> <<>>]

\* the splitter's state in the variables
SplitterState == [buffer |-> buffer, in_thinking |-> in_thinking, out |-> events]

\* the upstream texts: up to MaxPieces of these pieces, one after the other
Pieces == {<<"a">>, <<"b">>, <<"<">>, OPEN, CLOSE}

RECURSIVE TextsOf(_)
TextsOf(n) ==
    IF n = 0 THEN {<<>>}
    ELSE LET shorter == TextsOf(n - 1)
         IN shorter \cup {t \o pc : t \in shorter, pc \in Pieces}

Texts == TextsOf(MaxPieces)

\* the upstream delivers the next chunk, carrying the next n characters
StreamChunk ==
    /\ ~p_done
    /\ p_rest # <<>>
    /\ \E n \in 1..Len(p_rest) :
        /\ p_mode = "chars" => n = 1
        /\ p_mode = "any" => (p_nfrag + 1 < MaxFrags \/ n = Len(p_rest))
        /\ LET st == Feed(SplitterState, Take(p_rest, n))
           IN /\ buffer' = st.buffer
              /\ in_thinking' = st.in_thinking
              /\ events' = st.out
        /\ p_rest' = Drop(p_rest, n)
        /\ p_cuts' = Append(p_cuts, n)
    /\ p_nfrag' = IF p_mode = "any" THEN p_nfrag + 1 ELSE p_nfrag
    /\ UNCHANGED <<p_mode, p_text, p_done, server_vars>>

\* the upstream delivers a chunk without content
StreamEmptyChunk ==
    /\ ~p_done
    /\ LET st == Feed(SplitterState, <<>>)
       IN /\ buffer' = st.buffer
          /\ in_thinking' = st.in_thinking
          /\ events' = st.out
    /\ UNCHANGED <<p_rest, p_mode, p_nfrag, p_cuts, p_text, p_done, server_vars>>

\* the upstream ends: the flush
StreamEnd ==
    /\ ~p_done
    /\ p_rest = <<>>
    /\ events' = Flush(SplitterState).out
    /\ p_done' = TRUE
    /\ UNCHANGED <<p_rest, p_mode, p_nfrag, p_cuts, buffer, in_thinking, p_text,
                   server_vars>>

----------------------------------------------------------------------------
(* The connection *)

ServerInit ==
    /\ ctl = "recv"
    /\ pending = NoReq
    /\ current_task = 0
    /\ cancel_event = FALSE
    /\ session = ClearedSession
    /\ tasks = [id \in TaskIds |-> NoTask]
    /\ sink = NoMsg
    /\ msg_type = None
    /\ next_id = 1
    /\ exit_reason = "none"
    /\ reset_seen = FALSE

Init ==
    /\ ServerInit
    /\ p_rest = <<>>
    /\ p_mode = "off"
    /\ p_nfrag = 0
    /\ p_cuts = <<>>
    /\ buffer = <<>>
    /\ in_thinking = FALSE
    /\ events = <<>>
    /\ p_text = <<>>
    /\ p_done = TRUE

ControlStep ==
    \/ RecvPing
    \/ RecvCancel
    \/ RecvClearSession
    \/ RecvCompose
    \/ RecvOther
    \/ RecvFail
    \/ CtlSend
    \/ JoinDone
    \/ TeardownDone

TaskStep(id) ==
    \/ TaskStart(id)
    \/ TaskStartSent(id)
    \/ SourceChunk(id)
    \/ ChunkSent(id)
    \/ SourceEnd(id)
    \/ SourceFail(id)
    \/ SourceStall(id)
    \/ TermSent(id)
    \/ TaskKilled(id)

Next ==
    \/ ControlStep
    \/ \E id \in TaskIds : TaskStep(id)

Spec == Init /\ [][Next]_vars

\* a run of the splitter over one upstream text, cut into chunks in every way
ParserInit ==
    /\ ServerInit
    /\ p_text \in Texts
    /\ p_rest = p_text
    /\ p_mode \in {"any", "chars"}
    /\ p_nfrag = 0
    /\ p_cuts = <<>>
    /\ buffer = <<>>
    /\ in_thinking = FALSE
    /\ events = <<>>
    /\ p_done = FALSE

ParserNext ==
    \/ StreamChunk
    \/ StreamEmptyChunk
    \/ StreamEnd

ParserSpec == ParserInit /\ [][ParserNext]_vars

\* the scheduling of the asyncio event loop: a coroutine that can run does run
FairSpec ==
    /\ Spec
    /\ WF_vars(\E id \in TaskIds : TaskStep(id))
    /\ WF_vars(CtlSend)
    /\ WF_vars(JoinDone)
    /\ WF_vars(TeardownDone)

----------------------------------------------------------------------------
(* Claims *)

RunningTasks == {id \in TaskIds : Running(id)}

\* C1: at most one execution runs at any time, and when a compose was accepted
\* while an execution was active, that execution has issued its terminal signal
\* by the time the next execution's start signal is delivered.
C1_SingleFlight ==
    /\ Cardinality(RunningTasks) <= 1
    /\ \A i, j \in TaskIds :
        (i < j /\ tasks[i].joined_by = "compose" /\ tasks[j].started)
            => tasks[i].terms # <<>>

RECURSIVE TextOf(_, _)
TextOf(evs, chunk_type) ==
    IF evs = <<>> THEN <<>>
    ELSE (IF Head(evs)[1] = chunk_type THEN Head(evs)[2] ELSE <<>>)
         \o TextOf(Tail(evs), chunk_type)

\* the events of the same text delivered as one chunk
WholeEvents == Flush(Feed(SplitterStart, p_text)).out

\* C2: however the upstream text is cut into chunks, the content events join to
\* the same text as when it arrives as one chunk, and so do the thinking events.
C2_SplitJoinIdentity ==
    p_done => /\ TextOf(events, "content") = TextOf(WholeEvents, "content")
              /\ TextOf(events, "thinking") = TextOf(WholeEvents, "thinking")

\* C3: an execution that sent its start signal and has ended has issued exactly
\* one terminal signal.
C3_ExactlyOneTerminal ==
    \A id \in TaskIds :
        (TaskDone(id) /\ tasks[id].started) => Len(tasks[id].terms) = 1

HandlingCompose == ctl \in {"send_error_empty", "send_error_too_long", "join_compose"}

\* C4 as claimed: once the control loop has handled a compose command, valid or
\* not, the execution that ran when the command came runs no longer.
C4_ComposeAlwaysJoins ==
    [][(HandlingCompose /\ ctl' = "recv" /\ current_task # 0)
        => tasks'[current_task].pc \in {"done", "raised", "killed"}]_vars

\* C4 as amended: a compose command that passes validation while an execution is
\* active sets the cancel flag and joins before it spawns, so no task is created
\* while another runs and the joined one has ended when the command is handled;
\* a compose command that fails validation touches neither the flag nor the tasks.
C4_AcceptedComposeJoins ==
    [][/\ next_id' # next_id => ~HasActive
       /\ ctl' = "join_compose" => cancel_event'
       /\ (ctl = "join_compose" /\ ctl' = "recv")
            => tasks'[current_task].pc \in {"done", "raised", "killed"}
       /\ (ctl = "recv" /\ ctl' \in {"send_error_empty", "send_error_too_long"})
            => UNCHANGED <<tasks, cancel_event, current_task>>]_vars

\* C4 witness: a compose was accepted over a running execution, which has ended,
\* and the successor has been created.
C4_Witness ==
    \E i \in TaskIds :
        /\ tasks[i].joined_by = "compose"
        /\ tasks[i].terms = <<"cancelled">>
        /\ current_task > i

\* C5: the first compose accepted after a reset, when it asks to refine, runs as a
\* fresh composition: its prelude finds no prior notes.
C5_RefineAfterResetIsFresh ==
    \A id \in TaskIds :
        (tasks[id].after_reset /\ tasks[id].refine /\ tasks[id].mode # "none")
            => tasks[id].mode = "fresh"

\* C6: when session_cleared is delivered no execution is running.
C6_ResetJoinsFirst ==
    sink.type = "session_cleared" => RunningTasks = {}

\* C7: an execution that was waiting for the stream when the cancel flag was set
\* either still waits or is sending the cancelled signal, its only step before it
\* returns, and has not written the session's notes (a task the finally block
\* cancels is thrown out of its await instead).
C7_CancelWhilePulling ==
    \A id \in TaskIds :
        tasks[id].cancel_in_pull =>
            /\ ~tasks[id].wrote
            /\ \/ tasks[id].pc \in {"pull", "stalled"}
               \/ tasks[id].pc = "term_send" /\ tasks[id].msg = "cancelled"

\* C8: the finally block sets the cancel flag and cancels the running task before
\* it awaits it; once the handler has returned no task runs, and nothing is
\* written to the websocket, the session or the tasks any more.
C8_TeardownJoins ==
    /\ [](ctl = "teardown" =>
            /\ cancel_event
            /\ tasks[current_task].must_cancel \/ TaskDone(current_task))
    /\ [](ctl = "closed" => RunningTasks = {})
    /\ [][ctl = "closed" => (sink' = NoMsg /\ UNCHANGED <<session, tasks>>)]_vars

\* C8 witness: the handler has returned and the execution that ran when the
\* control loop left was cancelled.
C8_Witness ==
    /\ ctl = "closed"
    /\ \E id \in TaskIds : tasks[id].pc = "killed" /\ tasks[id].started

\* C9: the control loop never leaves because of an exception of an execution.
C9_ExecutionFailureStaysInside ==
    exit_reason # "task_exception"

\* C10: an execution whose upstream has gone silent ends with an error signal,
\* and a join of the control loop ends.
C10_StalledSourceTimesOut ==
    /\ \A id \in TaskIds :
        (tasks[id].pc = "stalled") ~> (tasks[id].terms = <<"error">>)
    /\ (ctl \in {"join_cancel", "join_compose"}) ~> (ctl \notin {"join_cancel", "join_compose"})

\* C11: a cancel command received while no execution is active delivers nothing,
\* leaves the control loop where it is, and changes neither the session, the
\* cancel flag, the current task nor any task; so one more cancel changes nothing.
C11_CancelWhileIdle ==
    [][(ctl = "recv" /\ msg_type' = "cancel" /\ ~HasActive)
        => /\ sink' = NoMsg
           /\ UNCHANGED <<ctl, pending, current_task, cancel_event, session, tasks,
                          next_id, exit_reason, reset_seen>>]_vars

\* C11 witness: a cancel was just received after the last execution had ended
\* with notes in the session, and the control loop waits for the next message.
C11_Witness ==
    /\ msg_type = "cancel"
    /\ ctl = "recv"
    /\ current_task # 0
    /\ TaskDone(current_task)
    /\ session.last_midi # <<>>

ValidationErrors == {"send_error_empty", "send_error_too_long"}

\* what is left of a prompt after strip() and the re.sub passes validation
Accepted(prompt) == prompt # <<>> /\ PromptLen(prompt) <= MAX_PROMPT_LEN

\* C16: a compose command either is refused or carries a prompt that is non-empty
\* and within the limit after sanitising; a refused one creates no task and
\* changes no session field, flag or task, and the only thing the control loop
\* does next is the single write of the error (which, when it fails, ends the
\* loop), again without creating a task or touching the session.
C16_InvalidComposeRejected ==
    /\ [][(ctl = "recv" /\ msg_type' = "compose")
            => \/ /\ ctl' \in ValidationErrors
                  /\ sink' = NoMsg
                  /\ UNCHANGED <<session, tasks, next_id, current_task, cancel_event>>
               \/ ctl' = "join_compose" /\ Accepted(pending'.prompt)
               \/ /\ ctl' = "recv"
                  /\ next_id' = next_id + 1
                  /\ Accepted(tasks'[next_id].prompt)]_vars
    /\ [][(ctl \in ValidationErrors /\ ctl' # ctl)
            => /\ \/ /\ ctl' = "recv"
                     /\ sink' = Msg("error", 0, IF ctl = "send_error_empty"
                                                THEN "empty" ELSE "too_long")
                  \/ /\ ctl' \in {"teardown", "closed"}
                     /\ exit_reason' = "send"
                     /\ sink' = NoMsg
               /\ UNCHANGED <<session, next_id, current_task>>]_vars

\* C16 witness: the too-long error has just been delivered on a connection that
\* never started an execution and whose session is as it was created.
C16_Witness ==
    /\ sink = Msg("error", 0, "too_long")
    /\ ctl = "recv"
    /\ next_id = 1
    /\ session = ClearedSession

C12_NoEmptyEvents ==
    \A k \in 1..Len(events) : events[k][2] # <<>>

\* C12 witness: the stream began with an opening tag followed at once by the
\* closing tag, and has been flushed: only the content after them was yielded.
C12_Witness ==
    /\ p_done
    /\ p_text = OPEN \o CLOSE \o <<"a">>
    /\ events = <<Ev("content", <<"a">>)>>

\* texts without any character of a tag
PlainTexts == {<<"a">>, <<"b">>, <<"a", "b">>, <<"b", "a">>}

\* C13: when the text A <think> B arrives as two chunks cut after 1 to 6
\* characters of the tag, the events at the end are exactly (content, A),
\* (thinking, B), the events of the text arriving as one chunk.
C13_SplitOpenRecognised ==
    \A A, B \in PlainTexts :
        (/\ p_done
         /\ p_text = A \o OPEN \o B
         /\ Len(p_cuts) = 2
         /\ p_cuts[1] \in (Len(A) + 1)..(Len(A) + 6))
            => /\ events = <<Ev("content", A), Ev("thinking", B)>>
               /\ events = WholeEvents

\* C13 witness: "a<th" then "ink>b" has been delivered and flushed.
C13_Witness ==
    /\ p_done
    /\ p_text = <<"a">> \o OPEN \o <<"b">>
    /\ p_cuts = <<4, 5>>
    /\ events = <<Ev("content", <<"a">>), Ev("thinking", <<"b">>)>>

\* the upstream texts that hold no closing tag
Unclosed == {t \in Texts : Find(t, CLOSE) = -1}

\* C14: for a text A <think> B with no closing tag in B, however it is cut, the
\* stream runs to its flush without raising; the content events come first and
\* join to A, the thinking events join to B; and when A arrives within the first
\* chunk there is one content event, (content, A), and every other is thinking.
C14_UnclosedOpen ==
    \A A \in PlainTexts, B \in Unclosed :
        (p_done /\ p_text = A \o OPEN \o B)
            => /\ TextOf(events, "content") = A
               /\ TextOf(events, "thinking") = B
               /\ \A j, k \in 1..Len(events) :
                    (j < k /\ events[j][1] = "thinking") => events[k][1] = "thinking"
               /\ p_cuts[1] >= Len(A)
                    => /\ events[1] = Ev("content", A)
                       /\ \A k \in 2..Len(events) : events[k][1] = "thinking"

\* C14 witness: "a<think>" then "b" has been delivered and the stream has ended
\* inside the thinking span.
C14_Witness ==
    /\ p_done
    /\ in_thinking
    /\ p_text = <<"a">> \o OPEN \o <<"b">>
    /\ p_cuts = <<8, 1>>
    /\ events = <<Ev("content", <<"a">>), Ev("thinking", <<"b">>)>>

\* the text ends with the first 1 to 7 characters of the closing tag
PartialClose(str) == \E k \in 1..7 : EndsWith(str, Take(CLOSE, k))

\* C18: while the stream runs no thinking event ends with what may be the start
\* of the closing tag (that tail is kept back), and a text <think> A </think> B,
\* however it is cut, gives thinking events that join to A and content events
\* that join to B.
C18_SplitCloseRecognised ==
    /\ ~p_done =>
        \A k \in 1..Len(events) :
            events[k][1] = "thinking" => ~PartialClose(events[k][2])
    /\ \A A, B \in PlainTexts \cup {<<>>} :
        (p_done /\ p_text = OPEN \o A \o CLOSE \o B)
            => /\ TextOf(events, "thinking") = A
               /\ TextOf(events, "content") = B

\* C19: an execution whose upstream failed with ServiceUnavailableError sends the
\* "cannot connect" error, and one whose upstream failed with any other exception
\* sends the generic error.
C19_FailureClassified ==
    \A id \in TaskIds :
        tasks[id].pc = "term_send" =>
            /\ tasks[id].failure = "ServiceUnavailableError"
                 => tasks[id].msg = "error_connect"
            /\ tasks[id].failure = "Exception"
                 => tasks[id].msg = "error_generic"

\* the stream of task id has just ended and its content has been parsed
StreamEnded(id) ==
    /\ tasks[id].pc = "pull"
    /\ tasks'[id].pc = "term_send"
    /\ tasks'[id].msg \notin {"cancelled", "error_connect"}

\* a line that is a record carrying all of t, n, v and d
IsNoteLine(ln) == ln.json /\ ln.tnvd

\* a line that is a record selecting a bank of the catalog
IsSelectionLine(ln) == ln.json /\ ln.bank \in INSTRUMENT_BANKS

\* the note of a note line: an instrument that is missing or not one of the
\* bank's becomes 0
NoteOf(ln) ==
    [key |-> ln.key,
     i |-> IF ln.has_i /\ ln.i_hashable /\ ln.i \in InstrumentIds THEN ln.i ELSE 0]

NotesOf(acc) ==
    LET sel == SelectSeq(acc, IsNoteLine)
    IN [k \in 1..Len(sel) |-> NoteOf(sel[k])]

FirstSelection(acc) ==
    LET sel == SelectSeq(acc, IsSelectionLine)
    IN IF sel = <<>> THEN None ELSE Head(sel).bank

\* C15: when the stream of an execution ends with content accumulated, the
\* execution goes on to send done, the session's notes are the notes of the note
\* lines in their order (after the prior notes when refining), and the session's
\* bank is the first valid selection when there is one.
C15_MixedContentParsed ==
    [][\A id \in TaskIds :
        (StreamEnded(id) /\ tasks[id].acc # <<>>)
            => /\ tasks'[id].msg = "done"
               /\ session'.last_midi =
                    (IF tasks[id].mode = "refine" THEN session.last_midi ELSE <<>>)
                        \o NotesOf(tasks[id].acc)
               /\ FirstSelection(tasks[id].acc) # None
                    => session'.bank = FirstSelection(tasks[id].acc)]_vars

\* C20: parsing the content of an execution leaves a bank the session already has
\* as it is, and gives a session without one at most the first valid selection.
C20_SelectionKeepsFixedKey ==
    [][\A id \in TaskIds :
        StreamEnded(id)
            => IF session.bank # None
               THEN session'.bank = session.bank
               ELSE session'.bank \in {None, FirstSelection(tasks[id].acc)}]_vars

\* C21: an execution that is about to send cancelled or error, with no reset
\* handled since it was created, finds the session's note list as it was when the
\* execution was created.
C21_NotesOnlyOnSuccess ==
    \A id \in TaskIds :
        (/\ tasks[id].pc = "term_send"
         /\ tasks[id].msg \in {"cancelled", "error_connect", "error_generic"}
         /\ id = current_task
         /\ ~reset_seen)
            => session.last_midi = tasks[id].midi_before

\* the delimiter the splitter is looking for
Awaited == IF in_thinking THEN CLOSE ELSE OPEN

\* C22: between two chunks the buffer is shorter than a tag, does not hold the
\* whole tag the splitter is looking for, and is nothing but a strict prefix of
\* that tag: whatever came before the prefix has been yielded.
C22_PendingBufferBounded ==
    ~p_done =>
        /\ Len(buffer) < Len(OPEN)
        /\ Find(buffer, Awaited) = -1
        /\ \E k \in 0..(Len(Awaited) - 1) : buffer = Take(Awaited, k)

\* C23: the cancel flag is set only while the control loop joins an execution,
\* tears down or has returned, so it is clear whenever the loop waits for a
\* command or writes an answer; it is clear when a task is created; and an
\* execution that took the cancelled exit is one a cancel or compose command
\* was joining.
C23_CancelFlagNeverStale ==
    /\ [](cancel_event => ctl \in {"join_cancel", "join_compose", "teardown", "closed"})
    /\ [][next_id' # next_id => (~cancel_event' /\ current_task' = next_id)]_vars
    /\ [](\A id \in TaskIds :
            (tasks[id].msg = "cancelled" \/ tasks[id].terms = <<"cancelled">>)
                => tasks[id].joined_by # "none")

\* C23 witness: after an execution was cancelled and joined, its successor has
\* pulled a chunk past the flag check and waits for the next one, the flag clear
\* and the control loop waiting for a command.
C23_Witness ==
    /\ ctl = "recv"
    /\ ~cancel_event
    /\ \E i, j \in TaskIds :
        /\ i < j
        /\ tasks[i].terms = <<"cancelled">>
        /\ tasks[j].pc = "pull"
        /\ tasks[j].nchunks = 1

====
